---- MODULE Spec2Model ----
(***************************************************************************)
(* Model of package mvnparser (parser.go): Parse reads a pom.xml file and  *)
(* decodes it with encoding/xml into a MavenProject; GetProperty looks a   *)
(* property up ignoring case.                                              *)
(*                                                                         *)
(* A Go string that is compared character by character (an element name,  *)
(* a property key) is a sequence of one-character strings; character data, *)
(* paths and messages are TLA+ strings, joined with \o.                    *)
(***************************************************************************)
EXTENDS Integers, Sequences, FiniteSets, TLC

VARIABLES fs, pom, proc, heap, call, handle, decodes, lookup, dirty, logged

vars == <<fs, pom, proc, heap, call, handle, decodes, lookup, dirty, logged>>

(***************************************************************************)
(* Bounds of the model.                                                    *)
(***************************************************************************)
\* children of one properties element
MaxProps == 2
\* dependency elements of one dependencies container
MaxDeps == 2
\* exclusion elements of one exclusions container, profile elements of one
\* profiles container
MaxItems == 2

(***************************************************************************)
(* Element names of the POM schema, as the struct tags of parser.go spell  *)
(* them.                                                                   *)
(***************************************************************************)
t_project == <<"p", "r", "o", "j", "e", "c", "t">>
t_modelVersion == <<"m", "o", "d", "e", "l", "V", "e", "r", "s", "i", "o", "n">>
t_parent == <<"p", "a", "r", "e", "n", "t">>
t_groupId == <<"g", "r", "o", "u", "p", "I", "d">>
t_artifactId == <<"a", "r", "t", "i", "f", "a", "c", "t", "I", "d">>
t_version == <<"v", "e", "r", "s", "i", "o", "n">>
t_packaging == <<"p", "a", "c", "k", "a", "g", "i", "n", "g">>
t_name == <<"n", "a", "m", "e">>
t_repositories == <<"r", "e", "p", "o", "s", "i", "t", "o", "r", "i", "e", "s">>
t_repository == <<"r", "e", "p", "o", "s", "i", "t", "o", "r", "y">>
t_properties == <<"p", "r", "o", "p", "e", "r", "t", "i", "e", "s">>
t_dependencyManagement == <<"d", "e", "p", "e", "n", "d", "e", "n", "c", "y", "M", "a", "n", "a", "g", "e", "m", "e", "n", "t">>
t_dependencies == <<"d", "e", "p", "e", "n", "d", "e", "n", "c", "i", "e", "s">>
t_dependency == <<"d", "e", "p", "e", "n", "d", "e", "n", "c", "y">>
t_profiles == <<"p", "r", "o", "f", "i", "l", "e", "s">>
t_profile == <<"p", "r", "o", "f", "i", "l", "e">>
t_build == <<"b", "u", "i", "l", "d">>
t_plugins == <<"p", "l", "u", "g", "i", "n", "s">>
t_plugin == <<"p", "l", "u", "g", "i", "n">>
t_pluginRepositories == <<"p", "l", "u", "g", "i", "n", "R", "e", "p", "o", "s", "i", "t", "o", "r", "i", "e", "s">>
t_pluginRepository == <<"p", "l", "u", "g", "i", "n", "R", "e", "p", "o", "s", "i", "t", "o", "r", "y">>
t_classifier == <<"c", "l", "a", "s", "s", "i", "f", "i", "e", "r">>
t_type == <<"t", "y", "p", "e">>
t_scope == <<"s", "c", "o", "p", "e">>
t_exclusions == <<"e", "x", "c", "l", "u", "s", "i", "o", "n", "s">>
t_exclusion == <<"e", "x", "c", "l", "u", "s", "i", "o", "n">>
t_id == <<"i", "d">>
t_url == <<"u", "r", "l">>
t_settings == <<"s", "e", "t", "t", "i", "n", "g", "s">>

(***************************************************************************)
(* Sequence helpers.                                                       *)
(***************************************************************************)
Range(s) == {s[i] : i \in 1..Len(s)}

Last(s) == s[Len(s)]

RECURSIVE Flatten(_)
Flatten(ss) == IF ss = <<>> THEN <<>> ELSE Head(ss) \o Flatten(Tail(ss))

RECURSIVE SeqsUpTo(_, _)
SeqsUpTo(S, n) ==
    IF n = 0 THEN {<<>>}
    ELSE LET shorter == SeqsUpTo(S, n - 1)
         IN  shorter \cup {Append(s, x) : s \in shorter, x \in S}

(***************************************************************************)
(* strings.ToLower on the ASCII letters (parser.go:168).                   *)
(***************************************************************************)
UpperLetters == <<"A","B","C","D","E","F","G","H","I","J","K","L","M",
                  "N","O","P","Q","R","S","T","U","V","W","X","Y","Z">>

LowerLetters == <<"a","b","c","d","e","f","g","h","i","j","k","l","m",
                  "n","o","p","q","r","s","t","u","v","w","x","y","z">>

ToLowerRune(c) ==
    IF \E i \in 1..26 : UpperLetters[i] = c
    THEN LowerLetters[CHOOSE i \in 1..26 : UpperLetters[i] = c]
    ELSE c

ToLower(s) == [i \in 1..Len(s) |-> ToLowerRune(s[i])]

(***************************************************************************)
(* The bytes of a file are a sequence of XML tokens: a start tag, an end   *)
(* tag, or character data.  xml.Unmarshal (parser.go:159) first has to     *)
(* read one well-formed element out of them.                               *)
(***************************************************************************)
StartTok(n) == [t |-> "start", name |-> n, data |-> ""]

EndTok(n) == [t |-> "end", name |-> n, data |-> ""]

TextTok(d) == [t |-> "text", name |-> <<>>, data |-> d]

Element(n, d, ks) == [name |-> n, data |-> d, kids |-> ks]

SyntaxError == [ok |-> FALSE, root |-> Element(<<>>, "", <<>>)]

\* The decoder's element stack: a start tag opens an element, character
\* data goes to the innermost open element, an end tag must close the
\* innermost open element, and the element read is complete when the stack
\* empties; what follows it is not read.
ReadToken(st, tok) ==
    LET stack == st.stack
        n     == Len(stack)
    IN  CASE st.status # "reading" -> st
          [] tok.t = "start" ->
               [st EXCEPT !.stack = Append(stack, Element(tok.name, "", <<>>))]
          [] tok.t = "text" ->
               IF n = 0 THEN st
               ELSE [st EXCEPT !.stack[n].data = @ \o tok.data]
          [] OTHER ->
               IF n = 0 \/ stack[n].name # tok.name THEN [st EXCEPT !.status = "error"]
               ELSE IF n = 1 THEN [st EXCEPT !.status = "done"]
               ELSE [st EXCEPT !.stack =
                       [SubSeq(stack, 1, n - 1) EXCEPT ![n - 1].kids = Append(@, stack[n])]]

\* The tokens bytes[lo..hi] read in order, from decoder state st.
RECURSIVE ReadTokens(_, _, _, _)
ReadTokens(bytes, lo, hi, st) ==
    IF lo > hi THEN st
    ELSE IF lo = hi THEN ReadToken(st, bytes[lo])
    ELSE LET mid  == (lo + hi) \div 2
             left == ReadTokens(bytes, lo, mid, st)
         IN  IF left.status # "reading" THEN left
             ELSE ReadTokens(bytes, mid + 1, hi, left)

\* One element read from bytes; input that ends before the element is
\* complete is an unexpected EOF.
ReadElement(bytes) ==
    LET st == ReadTokens(bytes, 1, Len(bytes), [status |-> "reading", stack |-> <<>>])
    IN  IF st.status = "done" THEN [ok |-> TRUE, root |-> st.stack[1]]
        ELSE SyntaxError

(***************************************************************************)
(* Struct-tag paths.  A field tagged "a>b" receives every b element inside *)
(* every a element of the element being decoded, in document order; a      *)
(* field of struct type tagged "a" is decoded from every a element into    *)
(* the same struct, so its own fields see the paths prefixed by a.         *)
(***************************************************************************)
KidsNamed(e, n) == SelectSeq(e.kids, LAMBDA k : k.name = n)

RECURSIVE Select(_, _)
Select(e, path) ==
    IF path = <<>> THEN <<e>>
    ELSE LET ks == KidsNamed(e, Head(path))
         IN  Flatten([i \in 1..Len(ks) |-> Select(ks[i], Tail(path))])

\* A string field: the character data of the last element at the path, or
\* the zero value "" when there is none.
StringField(e, path) ==
    LET es == Select(e, path)
    IN  IF es = <<>> THEN "" ELSE Last(es).data

\* Mutation: a slice that starts with one item instead of nil.
SliceFieldPreallocated(e, path) ==
    IF Select(e, path) = <<>> THEN <<Element(<<>>, "", <<>>)>> ELSE Select(e, path)

\* A slice field: the elements at the path, in document order, one item of
\* the slice decoded from each; the nil slice, of length 0, when there is
\* none.
SliceField(e, path) == Select(e, path)

(***************************************************************************)
(* The schema structs of parser.go, each decoded from one element.         *)
(***************************************************************************)
Parent(e) ==
    [ GroupId    |-> StringField(e, <<t_parent, t_groupId>>),
      ArtifactId |-> StringField(e, <<t_parent, t_artifactId>>),
      Version    |-> StringField(e, <<t_parent, t_version>>) ]

Exclusion(e) ==
    [ XMLName    |-> e.name,
      GroupId    |-> StringField(e, <<t_groupId>>),
      ArtifactId |-> StringField(e, <<t_artifactId>>) ]

Dependency(e) ==
    [ XMLName    |-> e.name,
      GroupId    |-> StringField(e, <<t_groupId>>),
      ArtifactId |-> StringField(e, <<t_artifactId>>),
      Version    |-> StringField(e, <<t_version>>),
      Classifier |-> StringField(e, <<t_classifier>>),
      Type       |-> StringField(e, <<t_type>>),
      Scope      |-> StringField(e, <<t_scope>>),
      Exclusions |-> [i \in 1..Len(SliceField(e, <<t_exclusions, t_exclusion>>)) |->
            Exclusion(SliceField(e, <<t_exclusions, t_exclusion>>)[i])] ]

\* Mutation: the nested block decoded with the project's own path.
DependencyManagementAtProject(e) ==
    [ Dependencies |-> [i \in 1..Len(SliceField(e, <<t_dependencies, t_dependency>>)) |->
            Dependency(SliceField(e, <<t_dependencies, t_dependency>>)[i])] ]

DependencyManagement(e) ==
    [ Dependencies |->
        [i \in 1..Len(SliceField(e, <<t_dependencyManagement, t_dependencies, t_dependency>>)) |->
            Dependency(SliceField(e, <<t_dependencyManagement, t_dependencies, t_dependency>>)[i])] ]

Repository(e) ==
    [ Id   |-> StringField(e, <<t_id>>),
      Name |-> StringField(e, <<t_name>>),
      Url  |-> StringField(e, <<t_url>>) ]

Plugin(e) ==
    [ XMLName    |-> e.name,
      GroupId    |-> StringField(e, <<t_groupId>>),
      ArtifactId |-> StringField(e, <<t_artifactId>>),
      Version    |-> StringField(e, <<t_version>>) ]

Build(e) ==
    [ Plugins |-> [i \in 1..Len(SliceField(e, <<t_build, t_plugins, t_plugin>>)) |->
            Plugin(SliceField(e, <<t_build, t_plugins, t_plugin>>)[i])] ]

Profile(e) ==
    [ Id    |-> StringField(e, <<t_id>>),
      Build |-> Build(e) ]

PluginRepository(e) ==
    [ Id   |-> StringField(e, <<t_id>>),
      Name |-> StringField(e, <<t_name>>),
      Url  |-> StringField(e, <<t_url>>) ]

\* The tag of MavenProject.Profiles (parser.go:48): the elements the
\* Profiles slice takes one Profile from.
ProfilesTag == <<t_profiles>>

(***************************************************************************)
(* The heap.  Address 0 is nil; a map and the project a Parse call returns *)
(* a pointer to live at addresses of their own.                            *)
(***************************************************************************)
Nil == 0

\* make(Properties), parser.go:77: a new, empty map.
make(h) == Cardinality(DOMAIN h) + 1

\* Mutation: project declared once, at package level.
newProjectShared(h) == 1

\* var project MavenProject, parser.go:158; &project escapes to the heap.
newProject(h) == Cardinality(DOMAIN h) + 1

EmptyMap == [k \in {} |-> ""]

\* Mutation: a key already stored keeps its value.
PutIfAbsent(m, k, v) == [x \in (DOMAIN m) \cup {k} |-> IF x \in DOMAIN m THEN m[x] ELSE v]

Put(m, k, v) == [x \in (DOMAIN m) \cup {k} |-> IF x = k THEN v ELSE m[x]]

\* The ",any" field of propertyEntries: one propertyEntry per child element.
propertyEntries(start) ==
    [ Entries |-> [i \in 1..Len(start.kids) |->
                     [XMLName |-> start.kids[i].name, Value |-> start.kids[i].data]] ]

\* The loop of Properties.UnmarshalXML over entries.Entries.
RECURSIVE RangeEntries(_, _, _)
RangeEntries(entries, props, h) ==
    IF entries = <<>> THEN [props |-> props, heap |-> h]
    ELSE LET entry == Head(entries)
             p     == IF props = Nil THEN make(h) ELSE props
             h1    == IF props = Nil THEN h @@ (p :> EmptyMap) ELSE h
         IN  RangeEntries(Tail(entries), p,
                          [h1 EXCEPT ![p] = Put(@, entry.XMLName, entry.Value)])

UnmarshalXML(props, h, start) ==
    RangeEntries(propertyEntries(start).Entries, props, h)

\* The Properties field: UnmarshalXML is called on the same field for each
\* properties element of the project.
RECURSIVE Properties(_, _, _)
Properties(starts, props, h) ==
    IF starts = <<>> THEN [props |-> props, heap |-> h]
    ELSE LET r == UnmarshalXML(props, h, Head(starts))
         IN  Properties(Tail(starts), r.props, r.heap)

MavenProject(e, props) ==
    [ XMLName              |-> e.name,
      ModelVersion         |-> StringField(e, <<t_modelVersion>>),
      Parent               |-> Parent(e),
      GroupId              |-> StringField(e, <<t_groupId>>),
      ArtifactId           |-> StringField(e, <<t_artifactId>>),
      Version              |-> StringField(e, <<t_version>>),
      Packaging            |-> StringField(e, <<t_packaging>>),
      Name                 |-> StringField(e, <<t_name>>),
      Repositories         |-> [i \in 1..Len(SliceField(e, <<t_repositories, t_repository>>)) |->
            Repository(SliceField(e, <<t_repositories, t_repository>>)[i])],
      Properties           |-> props,
      DependencyManagement |-> DependencyManagement(e),
      Dependencies         |-> [i \in 1..Len(SliceField(e, <<t_dependencies, t_dependency>>)) |->
            Dependency(SliceField(e, <<t_dependencies, t_dependency>>)[i])],
      Profiles             |-> [i \in 1..Len(SliceField(e, ProfilesTag)) |->
            Profile(SliceField(e, ProfilesTag)[i])],
      Build                |-> Build(e),
      PluginRepositories   |->
          [i \in 1..Len(SliceField(e, <<t_pluginRepositories, t_pluginRepository>>)) |->
            PluginRepository(SliceField(e, <<t_pluginRepositories, t_pluginRepository>>)[i])] ]

(***************************************************************************)
(* xml.Unmarshal(bytes, &project), parser.go:159, with project at address  *)
(* a of heap h: a syntax error, a root element other than the XMLName tag  *)
(* "project", or the decoded project.                                      *)
(***************************************************************************)
NilError == <<>>

Unmarshal(bytes, h, a) ==
    LET r == ReadElement(bytes)
    IN  IF ~r.ok THEN [err |-> <<"XML syntax error">>, heap |-> h]
        ELSE IF r.root.name # t_project
        THEN [err |-> <<"expected element type <project>">>, heap |-> h]
        ELSE LET p == Properties(KidsNamed(r.root, t_properties), Nil, h)
             IN  [err |-> NilError,
                  heap |-> [p.heap EXCEPT ![a] = MavenProject(r.root, p.props)]]

(***************************************************************************)
(* The files Parse is given.  A POM is described by what its author wrote  *)
(* (pom); the bytes of pom.xml are that description written out as XML.    *)
(***************************************************************************)
Absent == [present |-> FALSE, items |-> <<>>]

Section(items) == [present |-> TRUE, items |-> items]

ScalarNames == {t_modelVersion, t_groupId, t_artifactId, t_version, t_packaging, t_name}

Coordinates == {t_groupId, t_artifactId, t_version}

ScalarText(n) ==
    CASE n = t_modelVersion -> "4.0.0"
      [] n = t_groupId      -> "g"
      [] n = t_artifactId   -> "a"
      [] n = t_version      -> "1.0"
      [] n = t_packaging    -> "jar"
      [] OTHER              -> "n"

Leaf(n, d) == Element(n, d, <<>>)

\* A container element around the item elements, or nothing at all when
\* the section is absent.
Container(n, section, items) ==
    IF section.present THEN <<Element(n, "", items)>> ELSE <<>>

ExclusionElement(x) ==
    Element(t_exclusion, "", <<Leaf(t_groupId, x.gid), Leaf(t_artifactId, x.aid)>>)

DependencyElement(d) ==
    Element(t_dependency, "",
            <<Leaf(t_groupId, d.gid), Leaf(t_artifactId, d.aid)>>
            \o Container(t_exclusions, d.excl,
                         [i \in 1..Len(d.excl.items) |-> ExclusionElement(d.excl.items[i])]))

PluginElement(aid) == Element(t_plugin, "", <<Leaf(t_artifactId, aid)>>)

BuildElement(plugins) ==
    IF plugins.present
    THEN <<Element(t_build, "",
                   Container(t_plugins, plugins,
                             [i \in 1..Len(plugins.items) |-> PluginElement(plugins.items[i])]))>>
    ELSE <<>>

ProfileElement(p) ==
    Element(t_profile, "", <<Leaf(t_id, p.id)>> \o BuildElement(p.plugins))

RepositoryElement(id) == Element(t_repository, "", <<Leaf(t_id, id)>>)

PluginRepositoryElement(id) == Element(t_pluginRepository, "", <<Leaf(t_id, id)>>)

PropertiesElement(entries) ==
    Element(t_properties, "",
            [i \in 1..Len(entries) |-> Leaf(entries[i].name, entries[i].value)])

ScalarOrder == <<t_modelVersion, t_groupId, t_artifactId, t_version, t_packaging, t_name>>

ProjectElement(d) ==
    Element(IF d.shape = "otherroot" THEN t_settings ELSE t_project, "",
        (IF d.parent
         THEN <<Element(t_parent, "", <<Leaf(t_groupId, "pg"), Leaf(t_artifactId, "pa"),
                                        Leaf(t_version, "pv")>>)>>
         ELSE <<>>)
        \o [i \in 1..Len(SelectSeq(ScalarOrder, LAMBDA n : n \in d.scalars)) |->
              Leaf(SelectSeq(ScalarOrder, LAMBDA n : n \in d.scalars)[i],
                   ScalarText(SelectSeq(ScalarOrder, LAMBDA n : n \in d.scalars)[i]))]
        \o Container(t_repositories, d.repos,
                     [i \in 1..Len(d.repos.items) |-> RepositoryElement(d.repos.items[i])])
        \o [i \in 1..Len(d.props) |-> PropertiesElement(d.props[i])]
        \o (IF d.dm.present
            THEN <<Element(t_dependencyManagement, "",
                           Container(t_dependencies, d.dm,
                             [i \in 1..Len(d.dm.items) |-> DependencyElement(d.dm.items[i])]))>>
            ELSE <<>>)
        \o Container(t_dependencies, d.deps,
                     [i \in 1..Len(d.deps.items) |-> DependencyElement(d.deps.items[i])])
        \o Container(t_profiles, d.profiles,
                     [i \in 1..Len(d.profiles.items) |-> ProfileElement(d.profiles.items[i])])
        \o BuildElement(d.plugins)
        \o Container(t_pluginRepositories, d.pluginRepos,
                     [i \in 1..Len(d.pluginRepos.items) |->
                        PluginRepositoryElement(d.pluginRepos.items[i])]))

RECURSIVE Serialize(_)
Serialize(e) ==
    <<StartTok(e.name)>>
    \o (IF e.data = "" THEN <<>> ELSE <<TextTok(e.data)>>)
    \o Flatten([i \in 1..Len(e.kids) |-> Serialize(e.kids[i])])
    \o <<EndTok(e.name)>>

\* The bytes of the file: the document, or the document with its last end
\* tag missing, or with its last end tag closing another element.
Bytes(d) ==
    LET toks == Serialize(ProjectElement(d))
    IN  CASE d.shape = "unclosed"   -> SubSeq(toks, 1, Len(toks) - 1)
          [] d.shape = "mismatched" -> SubSeq(toks, 1, Len(toks) - 1) \o <<EndTok(t_parent)>>
          [] OTHER                  -> toks

Minimal ==
    [ shape |-> "wellformed", scalars |-> Coordinates, parent |-> FALSE,
      props |-> <<>>, repos |-> Absent, dm |-> Absent, deps |-> Absent,
      profiles |-> Absent, plugins |-> Absent, pluginRepos |-> Absent ]

PropNames == {<<"a">>, <<"A">>, <<"j", "v">>}

PropEntries ==
    { [name |-> <<"a">>, value |-> "8"], [name |-> <<"a">>, value |-> "11"],
      [name |-> <<"A">>, value |-> "17"], [name |-> <<"j", "v">>, value |-> "11"] }

PropertyPoms ==
    {[Minimal EXCEPT !.props = <<s>>] : s \in SeqsUpTo(PropEntries, MaxProps)}
    \cup {[Minimal EXCEPT !.props = <<s1, s2>>] :
            s1 \in SeqsUpTo(PropEntries, 1),
            s2 \in {<<>>, <<[name |-> <<"a">>, value |-> "11"]>>,
                    <<[name |-> <<"J", "V">>, value |-> "8"]>>}}

\* The dependency with n exclusions.
DependencyWith(n) ==
    [ gid  |-> <<"g0", "g1", "g2", "g3", "g4">>[n + 1],
      aid  |-> <<"a0", "a1", "a2", "a3", "a4">>[n + 1],
      excl |-> IF n = 0 THEN Absent
               ELSE Section([i \in 1..n |->
                      [gid |-> <<"xg1", "xg2", "xg3", "xg4">>[i],
                       aid |-> <<"xa1", "xa2", "xa3", "xa4">>[i]]]) ]

DependencySet == {DependencyWith(0), DependencyWith(MaxItems)}

DependencyPoms ==
    {[Minimal EXCEPT !.deps = ds, !.dm = ms] :
        ds \in {Absent} \cup {Section(s) : s \in SeqsUpTo(DependencySet, MaxDeps)},
        ms \in {Absent, Section(<<DependencyWith(1)>>),
                Section(<<DependencyWith(0), DependencyWith(MaxItems)>>)}}

ProfileSet ==
    { [id |-> "dev", plugins |-> Absent],
      [id |-> "release", plugins |-> Section(<<"maven-gpg-plugin">>)] }

ProfilePoms ==
    {[Minimal EXCEPT !.profiles = ps] :
        ps \in {Section(s) : s \in SeqsUpTo(ProfileSet, MaxItems)}}

OptionalPoms ==
    {[Minimal EXCEPT !.scalars = sc, !.parent = pa, !.repos = rs,
                     !.plugins = pl, !.pluginRepos = prs] :
        sc \in {{}, {t_name}, ScalarNames},
        pa \in BOOLEAN,
        rs \in {Absent, Section(<<"central">>)},
        pl \in {Absent, Section(<<"maven-jar-plugin", "maven-war-plugin">>)},
        prs \in {Absent, Section(<<"plugins-1", "plugins-2">>)}}

BrokenPoms ==
    {[d EXCEPT !.shape = sh] :
        d \in {Minimal, [Minimal EXCEPT !.deps = Section(<<DependencyWith(1)>>)]},
        sh \in {"unclosed", "mismatched", "otherroot"}}

Poms == PropertyPoms \cup DependencyPoms \cup ProfilePoms \cup OptionalPoms \cup BrokenPoms

Paths == {"pom.xml", "target", "missing.xml"}

\* pom.xml is a regular file, target a directory, missing.xml does not exist.
FileSystem(d) ==
    [p \in Paths |->
        CASE p = "pom.xml" -> [kind |-> "file", bytes |-> Bytes(d)]
          [] p = "target"  -> [kind |-> "dir", bytes |-> <<>>]
          [] OTHER         -> [kind |-> "absent", bytes |-> <<>>]]

(***************************************************************************)
(* os.Open, ioutil.ReadAll and fmt.Errorf as Parse uses them.              *)
(***************************************************************************)
Open(f) ==
    IF f.kind = "absent"
    THEN [ok |-> FALSE, err |-> "no such file or directory"]
    ELSE [ok |-> TRUE, err |-> ""]

ReadAll(f) ==
    IF f.kind = "dir"
    THEN [ok |-> FALSE, bytes |-> <<>>, err |-> "is a directory"]
    ELSE [ok |-> TRUE, bytes |-> f.bytes, err |-> ""]

\* Mutation: the cause, the %v argument, is left out of the message.
RECURSIVE ErrorfWithoutCause(_, _)
ErrorfWithoutCause(format, args) ==
    IF format = <<>> THEN <<>>
    ELSE IF Head(format) = "%s"
         THEN <<Head(args)>> \o ErrorfWithoutCause(Tail(format), Tail(args))
         ELSE IF Head(format) = "%v" THEN ErrorfWithoutCause(Tail(format), Tail(args))
         ELSE <<Head(format)>> \o ErrorfWithoutCause(Tail(format), args)

\* The message is the format with each verb replaced by the next argument.
RECURSIVE Errorf(_, _)
Errorf(format, args) ==
    IF format = <<>> THEN <<>>
    ELSE IF Head(format) \in {"%s", "%v"}
         THEN <<Head(args)>> \o Errorf(Tail(format), Tail(args))
         ELSE <<Head(format)>> \o Errorf(Tail(format), args)

ZeroMavenProject ==
    [ XMLName              |-> <<>>,
      ModelVersion         |-> "",
      Parent               |-> [GroupId |-> "", ArtifactId |-> "", Version |-> ""],
      GroupId              |-> "",
      ArtifactId           |-> "",
      Version              |-> "",
      Packaging            |-> "",
      Name                 |-> "",
      Repositories         |-> <<>>,
      Properties           |-> Nil,
      DependencyManagement |-> [Dependencies |-> <<>>],
      Dependencies         |-> <<>>,
      Profiles             |-> <<>>,
      Build                |-> [Plugins |-> <<>>],
      PluginRepositories   |-> <<>> ]

Calls == {1, 2}

Idle == [state |-> "idle", path |-> "", project |-> Nil, err |-> NilError]

Return(path, project, err) ==
    [state |-> "returned", path |-> path, project |-> project, err |-> err]

(***************************************************************************)
(* Parse(pomxmlPath), parser.go:146-163, called by caller c.               *)
(***************************************************************************)
\* return nil, fmt.Errorf("can't open file %s, %v", pomxmlPath, err)
OpenFailed(c, pomxmlPath, err) ==
    /\ call' = [call EXCEPT ![c] =
                  Return(pomxmlPath, Nil,
                         Errorf(<<"can't open file ", "%s", ", ", "%v">>, <<pomxmlPath, err>>))]
    /\ UNCHANGED <<heap, handle, decodes, proc, logged>>

\* return nil, fmt.Errorf("can't read file %s, %v", pomxmlPath, err), and
\* the deferred f.Close()
ReadFailed(c, pomxmlPath, err) ==
    /\ call' = [call EXCEPT ![c] =
                  Return(pomxmlPath, Nil,
                         Errorf(<<"can't read file ", "%s", ", ", "%v">>, <<pomxmlPath, err>>))]
    /\ handle' = [handle EXCEPT ![c] = "closed"]
    /\ UNCHANGED <<heap, decodes, proc, logged>>

\* log.Fatalf("unable to unmarshal pom file. Reason: %s", err): the message
\* is logged and os.Exit(1) ends the process; Parse does not return and
\* deferred calls do not run.
DecodeFailed(c, pomxmlPath, h, err) ==
    /\ logged' = Append(logged, <<"unable to unmarshal pom file. Reason: ">> \o err)
    /\ proc' = "exited"
    /\ call' = [call EXCEPT ![c] = [Idle EXCEPT !.state = "fatal", !.path = pomxmlPath]]
    /\ heap' = h
    /\ decodes' = [decodes EXCEPT ![c] = @ + 1]
    /\ handle' = [handle EXCEPT ![c] = "open"]

\* return &project, nil, and the deferred f.Close()
Decoded(c, pomxmlPath, h, project) ==
    /\ call' = [call EXCEPT ![c] = Return(pomxmlPath, project, NilError)]
    /\ heap' = h
    /\ decodes' = [decodes EXCEPT ![c] = @ + 1]
    /\ handle' = [handle EXCEPT ![c] = "closed"]
    /\ UNCHANGED <<proc, logged>>

Parse(c, pomxmlPath) ==
    /\ proc = "running"
    /\ call[c].state = "idle"
    /\ LET f == Open(fs[pomxmlPath])
       IN  IF ~f.ok THEN OpenFailed(c, pomxmlPath, f.err)
           ELSE LET bytes == ReadAll(fs[pomxmlPath])
                IN  IF ~bytes.ok THEN ReadFailed(c, pomxmlPath, bytes.err)
                    ELSE LET project == newProject(heap)
                             u == Unmarshal(bytes.bytes,
                                            heap @@ (project :> ZeroMavenProject), project)
                         IN  IF u.err # NilError
                             THEN DecodeFailed(c, pomxmlPath, u.heap, u.err)
                             ELSE Decoded(c, pomxmlPath, u.heap, project)
    /\ UNCHANGED <<fs, pom, lookup, dirty>>

(***************************************************************************)
(* mp.GetProperty(key), parser.go:166-173.  The range over the map visits  *)
(* the keys in an order the runtime chooses.                               *)
(***************************************************************************)
MapOf(h, props) == IF props = Nil THEN EmptyMap ELSE h[props]

Orders(m) ==
    {s \in SeqsUpTo(DOMAIN m, Cardinality(DOMAIN m)) :
        Len(s) = Cardinality(DOMAIN m) /\ Range(s) = DOMAIN m}

\* Mutation: the stored key is compared with the key as given.
RECURSIVE RangePropertiesExact(_, _, _)
RangePropertiesExact(order, m, key) ==
    IF order = <<>> THEN [value |-> "", exist |-> FALSE]
    ELSE LET k == Head(order)
         IN  IF k = key
             THEN [value |-> m[k], exist |-> TRUE]
             ELSE RangePropertiesExact(Tail(order), m, key)

RECURSIVE RangeProperties(_, _, _)
RangeProperties(order, m, key) ==
    IF order = <<>> THEN [value |-> "", exist |-> FALSE]
    ELSE LET k == Head(order)
         IN  IF ToLower(k) = ToLower(key)
             THEN [value |-> m[k], exist |-> TRUE]
             ELSE RangeProperties(Tail(order), m, key)

LookupKeys == {<<"A">>, <<"J", "v">>, <<"j">>, <<"v", "j">>}

NoLookup == [call |-> 0, key |-> <<>>, value |-> "", exist |-> FALSE]

GetProperty(c, key) ==
    /\ proc = "running"
    /\ call[c].state = "returned"
    /\ call[c].project # Nil
    /\ \E order \in Orders(MapOf(heap, heap[call[c].project].Properties)) :
          LET r == RangeProperties(order, MapOf(heap, heap[call[c].project].Properties), key)
          IN  lookup' = [call |-> c, key |-> key, value |-> r.value, exist |-> r.exist]
    /\ UNCHANGED <<fs, pom, proc, heap, call, handle, decodes, dirty, logged>>

(***************************************************************************)
(* What a caller may do with the project it was returned: the fields are   *)
(* exported, so it can store into the property map and assign a list.      *)
(***************************************************************************)
\* mp.Properties[k] = v
PutProperty(c, k, v) ==
    /\ proc = "running"
    /\ call[c].state = "returned"
    /\ call[c].project # Nil
    /\ heap[call[c].project].Properties # Nil
    /\ heap' = [heap EXCEPT ![heap[call[c].project].Properties] = Put(@, k, v)]
    /\ dirty' = dirty \cup {c}
    /\ UNCHANGED <<fs, pom, proc, call, handle, decodes, lookup, logged>>

\* mp.Dependencies = deps
SetDependencies(c, deps) ==
    /\ proc = "running"
    /\ call[c].state = "returned"
    /\ call[c].project # Nil
    /\ heap' = [heap EXCEPT ![call[c].project].Dependencies = deps]
    /\ dirty' = dirty \cup {c}
    /\ UNCHANGED <<fs, pom, proc, call, handle, decodes, lookup, logged>>

(***************************************************************************)
(* The specifications: callers that parse and update what they were        *)
(* returned, and callers that parse and look properties up.                *)
(***************************************************************************)
Init ==
    /\ pom \in Poms
    /\ fs = FileSystem(pom)
    /\ proc = "running"
    /\ heap = <<>>
    /\ call = [c \in Calls |-> Idle]
    /\ handle = [c \in Calls |-> "none"]
    /\ decodes = [c \in Calls |-> 0]
    /\ lookup = NoLookup
    /\ dirty = {}
    /\ logged = <<>>

Added == [Dependency(Leaf(t_dependency, "")) EXCEPT !.GroupId = "added"]

Next ==
    \/ \E c \in Calls, p \in Paths : Parse(c, p)
    \/ \E c \in Calls : PutProperty(c, <<"a">>, "changed")
    \/ \E c \in Calls : SetDependencies(c, <<Added>>)

Spec == Init /\ [][Next]_vars

NextLookup ==
    \/ \E c \in Calls, p \in Paths : Parse(c, p)
    \/ \E c \in Calls, key \in LookupKeys : GetProperty(c, key)

SpecLookup == Init /\ [][NextLookup]_vars

(***************************************************************************)
(* What the claims speak of.                                               *)
(***************************************************************************)
Returned(c) == call[c].state = "returned"

\* The project caller c holds, as returned and not updated since.
Holds(c) == Returned(c) /\ call[c].project # Nil /\ c \notin dirty

Project(c) == heap[call[c].project]

\* The project of c with its property map read through the reference.
Deref(c) == [Project(c) EXCEPT !.Properties = MapOf(heap, @)]

Opened(c) == fs[call[c].path].kind \in {"file", "dir"}

\* Two characters that are the same letter, whatever their case.
SameLetter(x, y) ==
    x = y \/ \E i \in 1..26 : {x, y} = {UpperLetters[i], LowerLetters[i]}

EqualIgnoringCase(s, t) ==
    Len(s) = Len(t) /\ \A i \in 1..Len(s) : SameLetter(s[i], t[i])

\* The children of the properties elements written in the POM, in
\* document order, and the map the last child of each name leaves.
Written(elements) == Flatten(elements)

LastOf(entries, k) ==
    entries[CHOOSE i \in 1..Len(entries) :
              /\ entries[i].name = k
              /\ \A j \in (i + 1)..Len(entries) : entries[j].name # k].value

HoldsExactly(m, entries) ==
    /\ DOMAIN m = {entries[i].name : i \in 1..Len(entries)}
    /\ \A k \in DOMAIN m : m[k] = LastOf(entries, k)

\* A decoded dependency and a decoded plugin list as the POM's author
\* wrote them.
AsWritten(dep) ==
    [ gid  |-> dep.GroupId,
      aid  |-> dep.ArtifactId,
      excl |-> [i \in 1..Len(dep.Exclusions) |->
                  [gid |-> dep.Exclusions[i].GroupId, aid |-> dep.Exclusions[i].ArtifactId]] ]

WrittenDependencies(section) ==
    [i \in 1..Len(section.items) |->
        [gid |-> section.items[i].gid, aid |-> section.items[i].aid,
         excl |-> section.items[i].excl.items]]

ArtifactIds(plugins) == [i \in 1..Len(plugins) |-> plugins[i].ArtifactId]

(***************************************************************************)
(* C1.  A readable file whose content is not well-formed XML, or does not  *)
(* decode as a project, makes Parse return a nil project and a non-nil     *)
(* error, and the process goes on running.                                 *)
(***************************************************************************)
C1_DecodeErrorIsReturned ==
    \A c \in Calls :
        (call[c].state # "idle" /\ call[c].path = "pom.xml" /\ pom.shape # "wellformed")
        => /\ Returned(c)
           /\ call[c].project = Nil
           /\ call[c].err # NilError
           /\ proc = "running"

(***************************************************************************)
(* C2.  Every call of Parse ends by returning exactly one of a non-nil     *)
(* project and a non-nil error.                                            *)
(***************************************************************************)
C2_ProjectOrError ==
    \A c \in Calls :
        call[c].state # "idle"
        => /\ Returned(c)
           /\ (call[c].project # Nil) # (call[c].err # NilError)

(***************************************************************************)
(* C3.  When the path cannot be opened, or the opened file cannot be read, *)
(* Parse returns a nil project and an error whose message carries the path *)
(* and the cause, and xml.Unmarshal was not called.                        *)
(***************************************************************************)
C3_FileAccessError ==
    \A c \in Calls :
        (call[c].state # "idle" /\ fs[call[c].path].kind # "file")
        => /\ Returned(c)
           /\ call[c].project = Nil
           /\ call[c].err # NilError
           /\ call[c].path \in Range(call[c].err)
           /\ (IF fs[call[c].path].kind = "absent"
               THEN "no such file or directory" ELSE "is a directory") \in Range(call[c].err)
           /\ decodes[c] = 0

C3_Witness ==
    /\ Returned(1) /\ call[1].path = "missing.xml" /\ call[1].err # NilError
    /\ Returned(2) /\ call[2].path = "target" /\ call[2].err # NilError

(***************************************************************************)
(* C4.  GetProperty returns (v, true) exactly when some stored key equals  *)
(* the key ignoring case, v being the value under such a key, and          *)
(* ("", false) when none does; a nil map has no stored key.                *)
(***************************************************************************)
Matching(m, key) == {k \in DOMAIN m : EqualIgnoringCase(k, key)}

C4_GetProperty ==
    lookup.call # 0
    => LET m == MapOf(heap, Project(lookup.call).Properties)
       IN  /\ lookup.exist <=> Matching(m, lookup.key) # {}
           /\ lookup.exist => \E k \in Matching(m, lookup.key) : m[k] = lookup.value
           /\ ~lookup.exist => lookup.value = ""

C4_Witness ==
    /\ lookup.call # 0
    /\ lookup.exist
    /\ lookup.key = <<"J", "v">>
    /\ lookup.value = "11"
    /\ LET m == MapOf(heap, Project(lookup.call).Properties)
       IN  lookup.key \notin DOMAIN m /\ Cardinality(Matching(m, lookup.key)) = 1

(***************************************************************************)
(* C5, as claimed.  After a properties element is decoded, the property    *)
(* map holds one entry per distinct child name of that element, with the   *)
(* text of the last such child, and no other entry.                        *)
(***************************************************************************)
C5_OnlyThatElement ==
    \A c \in Calls :
        (Holds(c) /\ pom.props # <<>>)
        => HoldsExactly(MapOf(heap, Project(c).Properties), Last(pom.props))

(***************************************************************************)
(* C5, amended.  The property map holds one entry per distinct child name  *)
(* over all the properties elements of the project, with the text of the   *)
(* last such child in document order, and no other entry.                  *)
(***************************************************************************)
C5_AllPropertiesElements ==
    \A c \in Calls :
        Holds(c) => HoldsExactly(MapOf(heap, Project(c).Properties), Written(pom.props))

C5_Witness ==
    \E c \in Calls :
        /\ Holds(c)
        /\ pom.props = << <<[name |-> <<"a">>, value |-> "8"]>>,
                           <<[name |-> <<"a">>, value |-> "11"]>> >>
        /\ DOMAIN MapOf(heap, Project(c).Properties) = {<<"a">>}
        /\ MapOf(heap, Project(c).Properties)[<<"a">>] = "11"

(***************************************************************************)
(* C6.  A profiles container with n profile elements decodes to n          *)
(* Profiles, the i-th with the id and the build plugins of the i-th        *)
(* profile element.                                                        *)
(***************************************************************************)
C6_OneProfilePerElement ==
    \A c \in Calls :
        (Holds(c) /\ pom.profiles.present)
        => LET ps == Project(c).Profiles
               ws == pom.profiles.items
           IN  /\ Len(ps) = Len(ws)
               /\ \A i \in 1..Len(ws) :
                    /\ ps[i].Id = ws[i].id
                    /\ ArtifactIds(ps[i].Build.Plugins) = ws[i].plugins.items

(***************************************************************************)
(* C7.  The dependencies under project.dependencies, and only they, are    *)
(* the project's Dependencies; those under dependencyManagement, and only  *)
(* they, are DependencyManagement.Dependencies; each in document order     *)
(* with the exclusions of its own exclusions container.                    *)
(***************************************************************************)
C7_DependencyLists ==
    \A c \in Calls :
        Holds(c)
        => /\ [i \in 1..Len(Project(c).Dependencies) |-> AsWritten(Project(c).Dependencies[i])]
                = WrittenDependencies(pom.deps)
           /\ [i \in 1..Len(Project(c).DependencyManagement.Dependencies) |->
                 AsWritten(Project(c).DependencyManagement.Dependencies[i])]
                = WrittenDependencies(pom.dm)

C7_Witness ==
    \E c \in Calls :
        /\ Holds(c)
        /\ Len(Project(c).Dependencies) = 2
        /\ Len(Project(c).Dependencies[2].Exclusions) = 2
        /\ Project(c).Dependencies[2].Exclusions[2].ArtifactId = "xa2"
        /\ Len(Project(c).Dependencies[1].Exclusions) = 0
        /\ Len(Project(c).DependencyManagement.Dependencies) = 1
        /\ Project(c).DependencyManagement.Dependencies[1].GroupId = "g1"

(***************************************************************************)
(* C8.  In a returned project, a list whose section is absent from the POM *)
(* is empty and a string whose element is absent is ""; a well-formed      *)
(* project document, whatever it leaves out, is returned without error.    *)
(***************************************************************************)
ScalarOf(p, n) ==
    CASE n = t_modelVersion -> p.ModelVersion
      [] n = t_groupId      -> p.GroupId
      [] n = t_artifactId   -> p.ArtifactId
      [] n = t_version      -> p.Version
      [] n = t_packaging    -> p.Packaging
      [] OTHER              -> p.Name

C8_AbsentIsZero ==
    \A c \in Calls :
        /\ (call[c].state # "idle" /\ call[c].path = "pom.xml" /\ pom.shape = "wellformed")
           => Returned(c) /\ call[c].err = NilError /\ call[c].project # Nil
        /\ Holds(c)
           => LET p == Project(c)
              IN  /\ ~pom.repos.present => Len(p.Repositories) = 0
                  /\ ~pom.deps.present => Len(p.Dependencies) = 0
                  /\ ~pom.dm.present => Len(p.DependencyManagement.Dependencies) = 0
                  /\ ~pom.profiles.present => Len(p.Profiles) = 0
                  /\ ~pom.plugins.present => Len(p.Build.Plugins) = 0
                  /\ ~pom.pluginRepos.present => Len(p.PluginRepositories) = 0
                  /\ \A i \in 1..Len(p.Dependencies) :
                       /\ ~pom.deps.items[i].excl.present => Len(p.Dependencies[i].Exclusions) = 0
                       /\ p.Dependencies[i].Version = "" /\ p.Dependencies[i].Scope = ""
                       /\ p.Dependencies[i].Classifier = "" /\ p.Dependencies[i].Type = ""
                  /\ \A n \in ScalarNames \ pom.scalars : ScalarOf(p, n) = ""
                  /\ ~pom.parent => p.Parent = [GroupId |-> "", ArtifactId |-> "", Version |-> ""]
                  /\ pom.props = <<>> => p.Properties = Nil

C8_Witness ==
    \E c \in Calls :
        /\ Holds(c)
        /\ pom = Minimal
        /\ Project(c).GroupId = "g" /\ Project(c).ArtifactId = "a" /\ Project(c).Version = "1.0"
        /\ Project(c).Name = ""
        /\ Project(c).Dependencies = <<>>
        /\ Project(c).Profiles = <<>>

(***************************************************************************)
(* C9.  Two Parse calls on the same file return equal projects that share  *)
(* nothing: they are different objects with different property maps, and   *)
(* an update a caller makes through one is not seen through the other.     *)
(***************************************************************************)
Update(c) == PutProperty(c, <<"a">>, "changed") \/ SetDependencies(c, <<Added>>)

Alike(c, d) ==
    (Holds(c) /\ Holds(d) /\ call[c].path = call[d].path)
    => /\ Deref(c) = Deref(d)
       /\ call[c].project # call[d].project
       /\ Project(c).Properties = Nil \/ Project(c).Properties # Project(d).Properties

C9_Independent ==
    [][\A c \in Calls : \A d \in Calls \ {c} :
         /\ Alike(c, d)'
         /\ (Update(c) /\ Returned(d) /\ call[d].project # Nil) => Deref(d)' = Deref(d)]_vars

C9_Witness ==
    /\ Returned(1) /\ Returned(2)
    /\ call[1].project # Nil /\ call[2].project # Nil
    /\ dirty = {1}
    /\ Deref(1).Properties # Deref(2).Properties
    /\ Deref(1).Dependencies # Deref(2).Dependencies
    /\ HoldsExactly(Deref(2).Properties, Written(pom.props))

(***************************************************************************)
(* C10.  Once Parse has opened the file, however Parse ends, the file      *)
(* handle has been closed.                                                 *)
(***************************************************************************)
C10_HandleClosed ==
    \A c \in Calls :
        (call[c].state # "idle" /\ Opened(c)) => handle[c] = "closed"
====
